---- MODULE Spec2Model ----
(***************************************************************************)
(* A model of the usePhoneClipboard hook                                   *)
(* (packages/roster/src/hooks/usePhoneClipboard.ts): the debounced         *)
(* auto-update effect, its timer callback, the manual copyPhoneNumbers     *)
(* operation, and getPreview.                                              *)
(*                                                                         *)
(* One step of the model is one uninterrupted run of JavaScript: a render  *)
(* of the component together with the effect cleanup and effect body that  *)
(* React runs for it, a timer callback up to its await, the continuation   *)
(* of an await, or the passing of one unit of time.                        *)
(***************************************************************************)
EXTENDS Integers, Sequences, FiniteSets, Bags, TLC

VARIABLES
    mounted,               \* the component instance is mounted
    selectedIds,           \* the host's selection (hook argument)
    autoUpdateClipboard,   \* option, line 52
    autoUpdateMinSelection,\* option, line 53
    autoUpdateDebounce,    \* option, line 54 (in time units)
    timers,                \* the pending timers of the JavaScript timer table
    debounceTimeoutRef,    \* debounceTimeoutRef.current (0 is undefined)
    hasCleanup,            \* the last effect run returned a cleanup function
    lastUpdatedRef,        \* lastUpdatedRef.current
    inflight,              \* the clipboard writes that have not resolved (a bag)
    writerError,           \* the writer's own detailedError state
    clipboard,             \* the clipboard object of the last render:
                           \* isSupported and detailedError as rendered
    dirty,                 \* the writer's state changed since the last render
    burst,                 \* what followed the last selection change: "none"
                           \* (it armed nothing), "armed", "fired" (its timer
                           \* ran), "void" (another render or callback came)
    sinceChange,           \* time units from that change to now while burst
                           \* is "armed", to the timer's run once "fired"
    superseded,            \* that change canceled a pending timer that was
                           \* armed for another payload
    ev                     \* what the last step did (notifications, result)

vars == <<mounted, selectedIds, autoUpdateClipboard, autoUpdateMinSelection,
          autoUpdateDebounce, timers,
          debounceTimeoutRef, hasCleanup, lastUpdatedRef, inflight,
          writerError, clipboard, dirty, burst, sinceChange, superseded, ev>>

----------------------------------------------------------------------------
(* Bounds *)

MaxDelay == 2
MaxMinSelection == 2
MaxInFlight == 2
MaxInFlightCopy == 1
MaxAge == MaxDelay + 1
MaxPreview == 6

----------------------------------------------------------------------------
(* The data the hook is given *)

Musicians == {1, 2, 3}

\* musician.phone: musicians 1 and 2 have a usable number, musician 3 has none
phone(m) == IF m = 1 THEN <<"7">> ELSE IF m = 2 THEN <<"8", "1", "2">> ELSE <<>>

ErrorKinds == {"PermissionDenied", "NotSupported", "Transient", "Unknown"}
NoError == "none"

\* selectedMusicians, in the order of the musicians array
RECURSIVE FilterFrom(_, _)
FilterFrom(m, ids) ==
    IF m > 3 THEN <<>>
    ELSE (IF m \in ids THEN <<m>> ELSE <<>>) \o FilterFrom(m + 1, ids)

selectedMusicians(ids) == FilterFrom(1, ids)

\* formatPhoneNumbersFromObjects: the usable numbers joined by the delimiter
RECURSIVE JoinPhones(_)
JoinPhones(ms) ==
    IF ms = <<>> THEN <<>>
    ELSE LET rest == JoinPhones(Tail(ms))
         IN  IF phone(Head(ms)) = <<>> THEN rest
             ELSE IF rest = <<>> THEN phone(Head(ms))
             ELSE phone(Head(ms)) \o <<",">> \o rest

\* selectedMusicians.length
selectedLength(ids) == Len(selectedMusicians(ids))

\* formattedPhoneNumbers
formattedPhoneNumbers(ids) == JoinPhones(selectedMusicians(ids))

\* phoneStats.validPhones
validPhones(ids) == Cardinality({m \in ids : phone(m) # <<>>})

----------------------------------------------------------------------------
(* Notifications, results and the record of the last step *)

Toast(variant, detail) == [variant |-> variant, detail |-> detail]

NoResult == [success |-> FALSE, message |-> "", phoneCount |-> -1]
NoOutcome == [how |-> "none", kind |-> NoError]

\* what a clipboard write can do: resolve to true, resolve to false, or reject;
\* a failure has a classified kind
Outcomes ==
    {[how |-> "ok", kind |-> NoError]}
        \cup {[how |-> h, kind |-> k] : h \in {"false", "throw"}, k \in ErrorKinds}

\* the last step: its kind; the notifications of the invocation it belongs
\* to; the payload it wrote; how its write ended; the result it returned; how
\* many pending timers it canceled; how often it called clearSelection(), and
\* whether it was configured to (autoClearSelection && clearSelection); the
\* maxLength it was called with; the rank of the automatic write it resolved
Ev(type, notes, text, out, result, canceled) ==
    [type |-> type, notes |-> notes, text |-> text, out |-> out,
     result |-> result, canceled |-> canceled, cleared |-> 0,
     autoClear |-> FALSE, maxLength |-> 0, rank |-> 0]

Step(type) == Ev(type, <<>>, <<>>, NoOutcome, NoResult, 0)

----------------------------------------------------------------------------
(* The timer table *)

\* a clearTimeout that cancels nothing
clearTimeoutNoop(ts, id) == ts

\* clearTimeout(id)
clearTimeout(ts, id) == {t \in ts : t.id # id}

\* the handle setTimeout returns: the least one no pending timer has. The
\* handle of a timer that ran or was cleared is held by nothing but the ref,
\* which line 120 overwrites with the new handle, so giving it out again
\* cannot make a stale handle clear a live timer.
NewHandle(ts) ==
    CHOOSE i \in 1..(Cardinality(ts) + 1) :
        /\ \A t \in ts : t.id # i
        /\ \A j \in 1..(i - 1) : \E t \in ts : t.id = j

\* a setTimeout called without its delay
setTimeoutNoDelay(ts, id, text, count, delay, clip) ==
    ts \cup {[id |-> id, text |-> text, count |-> count, rem |-> 0,
              clip |-> clip]}

\* setTimeout(callback, delay): the callback closes over the payload, the
\* valid count and the clipboard object of the render that armed it
setTimeout(ts, id, text, count, delay, clip) ==
    ts \cup {[id |-> id, text |-> text, count |-> count, rem |-> delay,
              clip |-> clip]}

----------------------------------------------------------------------------
(* The auto-update effect, lines 94-168 *)

\* an effect that returns no cleanup
EffectCleanupNone(ts, ref) == ts

\* the cleanup the effect returns when it armed a timer, lines 155-159
EffectCleanup(ts, ref) == IF ref # 0 THEN clearTimeout(ts, ref) ELSE ts

\* lines 99-102
ClearExisting(ts, ref) == IF ref # 0 THEN clearTimeout(ts, ref) ELSE ts

\* the early returns without the minimum selection threshold
SkipUpdateNoMin(ids, minSel, last) ==
    \/ formattedPhoneNumbers(ids) = <<>> \/ validPhones(ids) = 0
    \/ last = formattedPhoneNumbers(ids)

\* the early returns without the comparison with lastUpdatedRef
SkipUpdateNoLast(ids, minSel, last) ==
    \/ selectedLength(ids) < minSel
    \/ formattedPhoneNumbers(ids) = <<>> \/ validPhones(ids) = 0

\* lines 104-117: the three early returns after the existing timer is cleared
SkipUpdate(ids, minSel, last) ==
    \/ selectedLength(ids) < minSel
    \/ formattedPhoneNumbers(ids) = <<>> \/ validPhones(ids) = 0
    \/ last = formattedPhoneNumbers(ids)

\* the effect body: the timer table, the ref, whether a cleanup is returned,
\* and the timers that were pending before and still are
Effect(en, clip, ids, minSel, delay, last, ts, ref) ==
    IF ~en \/ ~clip.isSupported
    THEN [timers |-> ts, ref |-> ref, cleanup |-> FALSE, kept |-> ts]
    ELSE LET ts1 == ClearExisting(ts, ref)
         IN  IF SkipUpdate(ids, minSel, last)
             THEN [timers |-> ts1, ref |-> ref, cleanup |-> FALSE, kept |-> ts1]
             ELSE LET id == NewHandle(ts1)
                  IN  [timers |-> setTimeout(ts1, id, formattedPhoneNumbers(ids),
                                             validPhones(ids), delay, clip),
                       ref |-> id, cleanup |-> TRUE, kept |-> ts1]

\* a render with the given props: the clipboard object is the writer's state
\* as of this render; React runs the previous effect's cleanup, then the effect
Rendered(en, ids, minSel, delay) ==
    LET clip == [isSupported |-> clipboard.isSupported,
                 detailedError |-> writerError]
        ts0 == IF hasCleanup THEN EffectCleanup(timers, debounceTimeoutRef)
               ELSE timers
    IN  [clip |-> clip,
         eff |-> Effect(en, clip, ids, minSel, delay, lastUpdatedRef, ts0,
                        debounceTimeoutRef)]

\* the assignments of a render r == Rendered(en, ids, minSel, delay)
Render(r, en, ids, minSel, delay) ==
    /\ autoUpdateClipboard' = en
    /\ selectedIds' = ids
    /\ autoUpdateMinSelection' = minSel
    /\ autoUpdateDebounce' = delay
    /\ clipboard' = r.clip
    /\ timers' = r.eff.timers
    /\ debounceTimeoutRef' = r.eff.ref
    /\ hasCleanup' = r.eff.cleanup
    /\ dirty' = FALSE

\* the record of a render step, with the pending timers it canceled
RenderStep(type, r) ==
    Ev(type, <<>>, <<>>, NoOutcome, NoResult,
       Cardinality(timers) - Cardinality(r.eff.kept))

\* the render r armed a timer and canceled one armed for another payload
Supersedes(r, ids) ==
    /\ r.eff.cleanup
    /\ \E t \in timers : t \notin r.eff.kept /\ t.text # formattedPhoneNumbers(ids)

----------------------------------------------------------------------------
(* The state after the first render of a mounted instance with nothing      *)
(* selected: the effect ran and armed nothing                               *)

Init ==
    /\ mounted = TRUE
    /\ selectedIds = {}
    /\ autoUpdateClipboard \in BOOLEAN
    /\ autoUpdateMinSelection \in 1..MaxMinSelection
    /\ autoUpdateDebounce \in 1..MaxDelay
    /\ clipboard \in [isSupported : BOOLEAN, detailedError : {NoError}]
    /\ timers = {}
    /\ debounceTimeoutRef = 0
    /\ hasCleanup = FALSE
    /\ lastUpdatedRef = <<>>
    /\ inflight = EmptyBag
    /\ writerError = NoError
    /\ dirty = FALSE
    /\ burst = "none"
    /\ sinceChange = 0
    /\ superseded = FALSE
    /\ ev = Step("render")

----------------------------------------------------------------------------
(* Renders *)

\* the host changes the selection
SelectionChange(ids) ==
    LET r == Rendered(autoUpdateClipboard, ids, autoUpdateMinSelection,
                      autoUpdateDebounce)
    IN  /\ mounted
        /\ ids # selectedIds
        /\ Render(r, autoUpdateClipboard, ids, autoUpdateMinSelection,
                  autoUpdateDebounce)
        /\ burst' = IF r.eff.cleanup THEN "armed" ELSE "none"
        /\ sinceChange' = 0
        /\ superseded' = Supersedes(r, ids)
        /\ ev' = RenderStep("render", r)
        /\ UNCHANGED <<mounted, lastUpdatedRef, inflight, writerError>>

\* a render that is not a selection change
Rerender(en, minSel, delay) ==
    LET r == Rendered(en, selectedIds, minSel, delay)
    IN  /\ Render(r, en, selectedIds, minSel, delay)
        /\ burst' = "void"
        /\ sinceChange' = 0
        /\ superseded' = FALSE
        /\ ev' = RenderStep("render", r)
        /\ UNCHANGED <<mounted, lastUpdatedRef, inflight, writerError>>

\* the host turns the autoUpdateClipboard option on or off
SetAutoUpdate ==
    /\ mounted
    /\ Rerender(~autoUpdateClipboard, autoUpdateMinSelection, autoUpdateDebounce)

\* the host changes the autoUpdateMinSelection option
SetMinSelection(n) ==
    /\ mounted
    /\ n # autoUpdateMinSelection
    /\ Rerender(autoUpdateClipboard, n, autoUpdateDebounce)

\* the host changes the autoUpdateDebounce option
SetDebounce(d) ==
    /\ mounted
    /\ d # autoUpdateDebounce
    /\ Rerender(autoUpdateClipboard, autoUpdateMinSelection, d)

\* the writer's state changed: the component renders again with a new
\* clipboard object, a dependency of the effect (line 167)
ClipboardRerender ==
    /\ mounted
    /\ dirty
    /\ Rerender(autoUpdateClipboard, autoUpdateMinSelection, autoUpdateDebounce)

\* the instance is torn down: React runs the last effect's cleanup
Unmount ==
    /\ mounted
    /\ mounted' = FALSE
    /\ timers' = IF hasCleanup THEN EffectCleanup(timers, debounceTimeoutRef)
                 ELSE timers
    /\ hasCleanup' = FALSE
    /\ burst' = "void"
    /\ sinceChange' = 0
    /\ superseded' = FALSE
    /\ ev' = Ev("unmount", <<>>, <<>>, NoOutcome, NoResult,
                Cardinality(timers) - Cardinality(timers'))
    /\ UNCHANGED <<selectedIds, autoUpdateClipboard, autoUpdateMinSelection,
                   autoUpdateDebounce, debounceTimeoutRef,
                   lastUpdatedRef, inflight, writerError, clipboard, dirty>>

----------------------------------------------------------------------------
(* Time and the timer callback, lines 120-152 *)

\* one unit of time passes; a timer that is due runs before time moves on
Tick ==
    /\ \A t \in timers : t.rem > 0
    /\ timers' = {[t EXCEPT !.rem = t.rem - 1] : t \in timers}
    /\ sinceChange' = IF burst = "armed" /\ sinceChange < MaxAge
                       THEN sinceChange + 1 ELSE sinceChange
    /\ ev' = Step("tick")
    /\ UNCHANGED <<mounted, selectedIds, autoUpdateClipboard,
                   autoUpdateMinSelection, autoUpdateDebounce,
                   debounceTimeoutRef, hasCleanup,
                   lastUpdatedRef, inflight, writerError, clipboard, dirty,
                   burst, superseded>>

\* a write that has not resolved, with what its caller closed over and the
\* notifications its caller has shown so far; for an automatic write also its
\* place among the pending automatic writes in the order they started (rank)
Write(origin, text, count, clip, notes) ==
    [origin |-> origin, text |-> text, count |-> count,
     detailedError |-> clip.detailedError, notes |-> notes, rank |-> 0]

\* the pending automatic writes; their ranks tell them apart
AutoWrites(q) == {w \in BagToSet(q) : w.origin = "auto"}

\* the timer callback up to its await, lines 120-122: the write starts (cap
\* bounds the writes the model lets be outstanding at once)
TimerFire(t, cap) ==
    /\ t.rem = 0
    /\ BagCardinality(inflight) < cap
    /\ timers' = timers \ {t}
    /\ inflight' = inflight (+)
                       SetToBag({[Write("auto", t.text, t.count, t.clip, <<>>)
                                     EXCEPT !.rank =
                                         Cardinality(AutoWrites(inflight)) + 1]})
    /\ dirty' = TRUE
    /\ burst' = IF burst = "armed" THEN "fired" ELSE "void"
    /\ sinceChange' = IF burst = "armed" THEN sinceChange ELSE 0
    /\ superseded' = (burst = "armed" /\ superseded)
    /\ ev' = Ev("autoStart", <<>>, t.text, NoOutcome, NoResult, 0)
    /\ UNCHANGED <<mounted, selectedIds, autoUpdateClipboard,
                   autoUpdateMinSelection, autoUpdateDebounce,
                   debounceTimeoutRef, hasCleanup,
                   lastUpdatedRef, writerError, clipboard>>

\* the pending writes without w, which resolved
Remove(q, w) == q (-) SetToBag({w})

\* the pending writes once the automatic write w resolved: the ones started
\* after w move up one place, so a write left with a rank below w's was
\* started before w
RemoveAuto(q, w) ==
    LET manual == {x \in BagToSet(q) : x.origin = "manual"}
        rest == AutoWrites(q) \ {w}
    IN  [x \in manual |-> CopiesIn(x, q)] (+)
            SetToBag({[x EXCEPT
                          !.rank = IF x.rank > w.rank THEN x.rank - 1 ELSE x.rank] :
                      x \in rest})

\* the writer's detailedError after a write ended with outcome out
WriterErrorAfter(out) == IF out.how = "ok" THEN writerError ELSE out.kind

\* lines 123-134 and 135-151: what the callback shows once the write ended
AutoNotes(w, out) ==
    IF out.how = "ok" THEN <<Toast("success", "fade")>>
    ELSE IF out.how = "throw"
    THEN LET clipboardError == w.detailedError
         IN  IF clipboardError = "PermissionDenied"
             THEN <<Toast("permissionDenied", "")>>
             ELSE IF clipboardError = "NotSupported"
             THEN <<Toast("notSupported", "")>>
             ELSE <<>>
    ELSE <<>>

\* a callback that drops a successful write once auto-update is off
AutoLastUpdatedIfEnabled(w, out) ==
    IF out.how = "ok" /\ autoUpdateClipboard THEN w.text ELSE lastUpdatedRef

\* a callback that records the payload whatever the write returned
AutoLastUpdatedAlways(w, out) == w.text

\* line 124
AutoLastUpdated(w, out) == IF out.how = "ok" THEN w.text ELSE lastUpdatedRef

\* the continuation of the callback's await
AutoResolve(w, out) ==
    /\ w.origin = "auto"
    /\ inflight' = RemoveAuto(inflight, w)
    /\ lastUpdatedRef' = AutoLastUpdated(w, out)
    /\ writerError' = WriterErrorAfter(out)
    /\ dirty' = TRUE
    /\ ev' = [Ev("autoDone", AutoNotes(w, out), w.text, out, NoResult, 0)
                  EXCEPT !.rank = w.rank]
    /\ UNCHANGED <<mounted, selectedIds, autoUpdateClipboard,
                   autoUpdateMinSelection, autoUpdateDebounce,
                   timers, debounceTimeoutRef, hasCleanup,
                   clipboard, burst, sinceChange, superseded>>

----------------------------------------------------------------------------
(* copyPhoneNumbers, lines 174-270 *)

\* the default successMessage, lines 50-51
successMessage(count) ==
    "Copied " \o ToString(count) \o " phone number"
        \o (IF count # 1 THEN "s" ELSE "") \o " to clipboard"

Result(success, message, phoneCount) ==
    [success |-> success, message |-> message, phoneCount |-> phoneCount]

\* the validation without its second check
ValidationNoPayloadCheck(ids) ==
    IF selectedLength(ids) = 0
    THEN [pass |-> FALSE,
          notes |-> <<Toast("copyError", "No musicians selected")>>,
          result |-> Result(FALSE, "No musicians selected", 0)]
    ELSE [pass |-> TRUE, notes |-> <<Toast("loading", "")>>, result |-> NoResult]

\* lines 179-202: the validation checks, in order; "pass" when both pass
Validation(ids) ==
    IF selectedLength(ids) = 0
    THEN [pass |-> FALSE,
          notes |-> <<Toast("copyError", "No musicians selected")>>,
          result |-> Result(FALSE, "No musicians selected", 0)]
    ELSE IF formattedPhoneNumbers(ids) = <<>>
    THEN [pass |-> FALSE,
          notes |-> <<Toast("copyError", "No valid phone numbers found")>>,
          result |-> Result(FALSE, "No valid phone numbers found in selection", 0)]
    ELSE [pass |-> TRUE, notes |-> <<Toast("loading", "")>>, result |-> NoResult]

\* the host calls copyPhoneNumbers and a validation check fails
CopyRejected ==
    /\ mounted
    /\ ~Validation(selectedIds).pass
    /\ ev' = Ev("copyRejected", Validation(selectedIds).notes, <<>>, NoOutcome,
                Validation(selectedIds).result, 0)
    /\ UNCHANGED <<mounted, selectedIds, autoUpdateClipboard,
                   autoUpdateMinSelection, autoUpdateDebounce, timers,
                   debounceTimeoutRef, hasCleanup, lastUpdatedRef, inflight,
                   writerError, clipboard, dirty, burst, sinceChange,
                   superseded>>

\* the host calls copyPhoneNumbers, lines 179-208 up to the await
CopyStart(cap) ==
    /\ mounted
    /\ Validation(selectedIds).pass
    /\ BagCardinality(inflight) < cap
    /\ inflight' = inflight (+)
                       SetToBag({Write("manual", formattedPhoneNumbers(selectedIds),
                                       validPhones(selectedIds), clipboard,
                                       Validation(selectedIds).notes)})
    /\ dirty' = TRUE
    /\ ev' = Ev("copyStart", Validation(selectedIds).notes,
                formattedPhoneNumbers(selectedIds), NoOutcome, NoResult, 0)
    /\ UNCHANGED <<mounted, selectedIds, autoUpdateClipboard,
                   autoUpdateMinSelection, autoUpdateDebounce, timers,
                   debounceTimeoutRef, hasCleanup, lastUpdatedRef, writerError,
                   clipboard, burst, sinceChange, superseded>>

\* lines 228-242: the notification for a write that resolved to false, from
\* the detailedError of the clipboard object the callback closed over
FailureToast(error) ==
    IF error # NoError
    THEN IF error = "PermissionDenied" THEN Toast("permissionDenied", "")
         ELSE IF error = "NotSupported" THEN Toast("notSupported", "")
         ELSE Toast("copyError", error)
    ELSE Toast("copyError", "Copy operation failed")

\* line 246: clipboard.error || 'Failed to copy to clipboard'
FailureMessage(error) ==
    IF error # NoError THEN error ELSE "Failed to copy to clipboard"

\* what the callbacks the success path calls can do: both return, or
\* clearSelection throws, or successMessage throws
Callbacks == {"return", "clearThrows", "messageThrows"}

\* a copy that calls clearSelection() however the write ended
ClearCalledAnyOutcome(out, autoClear) == autoClear

\* lines 210 and 217: clearSelection() is called
ClearCalled(out, autoClear) == out.how = "ok" /\ autoClear

\* lines 210-260: the notifications after the await, the result, whether
\* clearSelection() was called and whether it ran to completion; autoClear is
\* autoClearSelection && clearSelection as the callback closed over it
CopyOutcome(w, out, autoClear, cb) ==
    LET called == ClearCalled(out, autoClear)
        cleared == called /\ cb # "clearThrows"
    IN  IF out.how = "ok"
        THEN IF autoClear /\ cb = "clearThrows"
             THEN [notes |-> <<Toast("success", "default"),
                               Toast("copyError", "clearSelection threw")>>,
                   result |-> Result(FALSE, "clearSelection threw", 0),
                   called |-> called, cleared |-> cleared]
             ELSE IF cb = "messageThrows"
             THEN [notes |-> <<Toast("success", "default"),
                               Toast("copyError", "successMessage threw")>>,
                   result |-> Result(FALSE, "successMessage threw", 0),
                   called |-> called, cleared |-> cleared]
             ELSE [notes |-> <<Toast("success", "default")>>,
                   result |-> Result(TRUE, successMessage(w.count), w.count),
                   called |-> called, cleared |-> cleared]
        ELSE IF out.how = "false"
        THEN [notes |-> <<FailureToast(w.detailedError)>>,
              result |-> Result(FALSE, FailureMessage(w.detailedError), 0),
              called |-> called, cleared |-> cleared]
        ELSE [notes |-> <<Toast("copyError", out.kind)>>,
              result |-> Result(FALSE, out.kind, 0),
              called |-> called, cleared |-> cleared]

\* the continuation of copyPhoneNumbers' await; when clearSelection() ran, the
\* host's selection is empty and the component renders with it. Nothing reads
\* the option autoClearSelection before this point, so its value is drawn
\* here and not carried by the pending write. The callbacks run only on the
\* success path.
CopyResolve(w, out, autoClear, cb) ==
    LET o == CopyOutcome(w, out, autoClear, cb)
        r == Rendered(autoUpdateClipboard, {}, autoUpdateMinSelection,
                      autoUpdateDebounce)
    IN  /\ w.origin = "manual"
        /\ out.how # "ok" => cb = "return"
        /\ cb = "clearThrows" => autoClear
        /\ inflight' = Remove(inflight, w)
        /\ writerError' = WriterErrorAfter(out)
        /\ IF o.cleared /\ mounted
           THEN /\ Render(r, autoUpdateClipboard, {}, autoUpdateMinSelection,
                          autoUpdateDebounce)
                /\ burst' = IF r.eff.cleanup THEN "armed" ELSE "none"
                /\ sinceChange' = 0
                /\ superseded' = Supersedes(r, {})
                /\ ev' = [RenderStep("copyDone", r) EXCEPT
                              !.notes = w.notes \o o.notes,
                              !.out = out, !.result = o.result,
                              !.cleared = IF o.called THEN 1 ELSE 0,
                              !.autoClear = autoClear]
           ELSE /\ dirty' = TRUE
                /\ ev' = [Ev("copyDone", w.notes \o o.notes, <<>>, out,
                              o.result, 0) EXCEPT
                              !.cleared = IF o.called THEN 1 ELSE 0,
                              !.autoClear = autoClear]
                /\ UNCHANGED <<selectedIds, autoUpdateClipboard,
                               autoUpdateMinSelection, autoUpdateDebounce,
                               timers, debounceTimeoutRef, hasCleanup,
                               clipboard, burst, sinceChange, superseded>>
        /\ UNCHANGED <<mounted, lastUpdatedRef>>

----------------------------------------------------------------------------
(* getPreview, lines 286-297 *)

Min(a, b) == IF a < b THEN a ELSE b
Max(a, b) == IF a > b THEN a ELSE b

\* String.prototype.substring(start, end): each index is clamped to
\* 0..length, and the two are swapped when start is the greater
substring(str, start, end) ==
    LET a == Min(Max(start, 0), Len(str))
        b == Min(Max(end, 0), Len(str))
    IN  SubSeq(str, Min(a, b) + 1, Max(a, b))

Ellipsis == <<".", ".", ".">>

\* getPreview(maxLength) over the payload of the render it is from
getPreview(text, maxLength) ==
    IF text = <<>> THEN <<>>
    ELSE IF Len(text) <= maxLength THEN text
    ELSE substring(text, 0, maxLength - 3) \o Ellipsis

\* the host calls getPreview(maxLength)
GetPreview(maxLength) ==
    /\ mounted
    /\ ev' = [Step("preview") EXCEPT
                  !.text = getPreview(formattedPhoneNumbers(selectedIds), maxLength),
                  !.maxLength = maxLength]
    /\ UNCHANGED <<mounted, selectedIds, autoUpdateClipboard,
                   autoUpdateMinSelection, autoUpdateDebounce, timers,
                   debounceTimeoutRef, hasCleanup, lastUpdatedRef, inflight,
                   writerError, clipboard, dirty, burst, sinceChange,
                   superseded>>

----------------------------------------------------------------------------
(* The specifications *)

\* a write that resolves to true, or fails (resolves to false, rejects)
\* and leaves no detailedError (the case lines 141 and 240 provide for)
Unclassified == {[how |-> h, kind |-> NoError] : h \in {"ok", "false", "throw"}}

\* a write that resolves rather than rejects
SyncOutcomes == {out \in Unclassified : out.how # "throw"}

\* The auto-update machinery alone: every render, time, the timer callback
\* and its write, with MaxInFlightCopy writes pending at most

Next ==
    \/ \E ids \in SUBSET Musicians : SelectionChange(ids)
    \/ SetAutoUpdate
    \/ \E n \in 1..MaxMinSelection : SetMinSelection(n)
    \/ \E d \in 1..MaxDelay : SetDebounce(d)
    \/ ClipboardRerender
    \/ Unmount
    \/ Tick
    \/ \E t \in timers : TimerFire(t, MaxInFlightCopy)
    \/ \E w \in BagToSet(inflight), out \in SyncOutcomes : AutoResolve(w, out)

Spec == Init /\ [][Next]_vars

\* The same with MaxInFlight writes pending at most: writes that overlap and
\* resolve in any order
NextRace ==
    \/ \E ids \in SUBSET Musicians : SelectionChange(ids)
    \/ SetAutoUpdate
    \/ \E n \in 1..MaxMinSelection : SetMinSelection(n)
    \/ \E d \in 1..MaxDelay : SetDebounce(d)
    \/ ClipboardRerender
    \/ Unmount
    \/ Tick
    \/ \E t \in timers : TimerFire(t, MaxInFlight)
    \/ \E w \in BagToSet(inflight), out \in SyncOutcomes : AutoResolve(w, out)

SpecRace == Init /\ [][NextRace]_vars

\* Manual copies beside automatic ones, with every kind of failure, on a
\* platform that supports the clipboard, under the default threshold and a
\* delay of one time unit. The selections: nothing, a musician without a
\* usable number, one with, two with.
CopySelections == {{}, {3}, {1}, {1, 2}}

InitCopy ==
    /\ Init
    /\ autoUpdateMinSelection = 1
    /\ autoUpdateDebounce = 1
    /\ clipboard.isSupported

NextCopy ==
    \/ \E ids \in CopySelections : SelectionChange(ids)
    \/ SetAutoUpdate
    \/ ClipboardRerender
    \/ Tick
    \/ \E t \in timers : TimerFire(t, MaxInFlightCopy)
    \/ \E w \in BagToSet(inflight), out \in Outcomes : AutoResolve(w, out)
    \/ CopyRejected
    \/ CopyStart(MaxInFlightCopy)
    \/ \E w \in BagToSet(inflight), out \in Outcomes, autoClear \in BOOLEAN,
          cb \in Callbacks :
           CopyResolve(w, out, autoClear, cb)

SpecCopy == InitCopy /\ [][NextCopy]_vars

\* The same with writes that leave no detailedError, and more of them pending
NextMixed ==
    \/ \E ids \in CopySelections : SelectionChange(ids)
    \/ SetAutoUpdate
    \/ ClipboardRerender
    \/ Tick
    \/ \E t \in timers : TimerFire(t, MaxInFlight)
    \/ \E w \in BagToSet(inflight), out \in Unclassified : AutoResolve(w, out)
    \/ CopyRejected
    \/ CopyStart(MaxInFlight)
    \/ \E w \in BagToSet(inflight), out \in Unclassified, autoClear \in BOOLEAN,
          cb \in Callbacks :
           CopyResolve(w, out, autoClear, cb)

SpecMixed == InitCopy /\ [][NextMixed]_vars

\* The instance from its first render on, mounted with any selection and
\* options that the host then leaves alone: time passes, due timers run,
\* pending writes resolve, and the component renders again after the writer's
\* state changed. The event loop runs a due timer and a settled promise's
\* continuation, React renders after a state change, and the writer settles
\* every write: each is weakly fair.
InitLive ==
    \E ids \in SUBSET Musicians, en \in BOOLEAN, minSel \in 1..MaxMinSelection,
       delay \in 1..MaxDelay, supported \in BOOLEAN :
        LET clip == [isSupported |-> supported, detailedError |-> NoError]
            eff == Effect(en, clip, ids, minSel, delay, <<>>, {}, 0)
        IN  /\ mounted = TRUE
            /\ selectedIds = ids
            /\ autoUpdateClipboard = en
            /\ autoUpdateMinSelection = minSel
            /\ autoUpdateDebounce = delay
            /\ clipboard = clip
            /\ timers = eff.timers
            /\ debounceTimeoutRef = eff.ref
            /\ hasCleanup = eff.cleanup
            /\ lastUpdatedRef = <<>>
            /\ inflight = EmptyBag
            /\ writerError = NoError
            /\ dirty = FALSE
            /\ burst = IF eff.cleanup THEN "armed" ELSE "none"
            /\ sinceChange = 0
            /\ superseded = FALSE
            /\ ev = Step("render")

TimerFires == \E t \in timers : TimerFire(t, MaxInFlight)

AutoResolves ==
    \E w \in BagToSet(inflight), out \in SyncOutcomes : AutoResolve(w, out)

NextLive ==
    \/ ClipboardRerender
    \/ Tick
    \/ TimerFires
    \/ AutoResolves

SpecLive ==
    /\ InitLive
    /\ [][NextLive]_vars
    /\ WF_vars(ClipboardRerender)
    /\ WF_vars(Tick)
    /\ WF_vars(TimerFires)
    /\ WF_vars(AutoResolves)

\* Previews of every payload, for every maxLength up to MaxPreview
NextPreview ==
    \/ \E ids \in SUBSET Musicians : SelectionChange(ids)
    \/ \E n \in 0..MaxPreview : GetPreview(n)

SpecPreview == Init /\ [][NextPreview]_vars

----------------------------------------------------------------------------
(* The claims *)

\* the automatic writes that have not resolved
AutoInFlight ==
    LET autos == {w \in BagToSet(inflight) : w.origin = "auto"}
    IN  IF autos = {} THEN 0
        ELSE IF \E w \in autos : Cardinality(autos) > 1 \/ CopiesIn(w, inflight) > 1
        THEN 2 ELSE 1

TerminalVariants == {"success", "permissionDenied", "notSupported", "copyError"}

\* C1: in every reachable state at most one debounce timer is pending: every
\* step that arms a timer first cancels the one armed before.
C1_AtMostOneTimer == Cardinality(timers) <= 1

\* a render canceled a pending timer and armed a new one
C1_Witness ==
    /\ ev.type = "render"
    /\ ev.canceled = 1
    /\ Cardinality(timers) = 1

\* C2: in every reachable state at most one automatic write has not resolved.
C2_AtMostOneAutoWrite == AutoInFlight <= 1

C4_Suppression ==
    (ev.type = "render" /\ formattedPhoneNumbers(selectedIds) = lastUpdatedRef)
        => timers = {}

\* the effect ran enabled with a synced payload, canceled the pending timer
\* and armed none
C4_Witness ==
    /\ ev.type = "render"
    /\ ev.canceled = 1
    /\ autoUpdateClipboard
    /\ lastUpdatedRef # <<>>
    /\ formattedPhoneNumbers(selectedIds) = lastUpdatedRef
    /\ timers = {}

\* C5: lastUpdatedRef changes only when an automatic write resolves to true,
\* and then to the payload of that write; it never becomes empty.
C5_LastSyncedOnlyOnSuccess ==
    [][lastUpdatedRef' # lastUpdatedRef =>
          /\ ev'.type = "autoDone"
          /\ ev'.out.how = "ok"
          /\ lastUpdatedRef' = ev'.text
          /\ lastUpdatedRef' # <<>>]_vars

\* an automatic write resolved to true and its payload is recorded
C5_Witness ==
    /\ ev.type = "autoDone"
    /\ ev.out.how = "ok"
    /\ lastUpdatedRef = ev.text
    /\ lastUpdatedRef # <<>>

\* C6: no timer is pending while auto-update is disabled or the instance is
\* torn down, and a timer callback runs only in an enabled, mounted instance.
C6_DisableCancels ==
    /\ (~autoUpdateClipboard \/ ~mounted) => timers = {}
    /\ ev.type = "autoStart" => (autoUpdateClipboard /\ mounted)

\* disabling auto-update canceled a pending timer
C6_Witness ==
    /\ ev.type = "render"
    /\ ~autoUpdateClipboard
    /\ ev.canceled = 1
    /\ timers = {}

\* C7: copyPhoneNumbers checks the selection, then the payload; when one is
\* empty it returns the matching failure, shows no loading notification and
\* starts no write.
C7_Preconditions ==
    /\ ev.type = "copyRejected" =>
          /\ \A n \in 1..Len(ev.notes) : ev.notes[n].variant # "loading"
          /\ IF selectedLength(selectedIds) = 0
             THEN ev.result = Result(FALSE, "No musicians selected", 0)
             ELSE /\ formattedPhoneNumbers(selectedIds) = <<>>
                  /\ ev.result =
                        Result(FALSE, "No valid phone numbers found in selection", 0)
    /\ ev.type = "copyStart" =>
          /\ selectedLength(selectedIds) > 0
          /\ formattedPhoneNumbers(selectedIds) # <<>>
    /\ \A w \in BagToSet(inflight) : w.text # <<>>

\* a copy was rejected for a selection with no usable number
C7_Witness ==
    /\ ev.type = "copyRejected"
    /\ selectedLength(selectedIds) > 0
    /\ inflight = EmptyBag

\* C8: every copyPhoneNumbers call that passes validation shows a loading
\* notification followed by exactly one terminal notification.
C8_OneTerminalNotification ==
    ev.type = "copyDone" =>
        /\ Len(ev.notes) = 2
        /\ ev.notes[1].variant = "loading"
        /\ ev.notes[2].variant \in TerminalVariants

\* C9: when the write of a manual copy resolves to false, the result is a
\* failure with count 0 and the one terminal notification is the variant of
\* the kind of that failure.
C9_FailureVariantMatchesKind ==
    (ev.type = "copyDone" /\ ev.out.how = "false") =>
        /\ ev.result.success = FALSE
        /\ ev.result.phoneCount = 0
        /\ Len(ev.notes) = 2
        /\ ev.notes[2] =
              IF ev.out.kind = "PermissionDenied" THEN Toast("permissionDenied", "")
              ELSE IF ev.out.kind = "NotSupported" THEN Toast("notSupported", "")
              ELSE Toast("copyError", ev.out.kind)

\* C10: an automatic write that fails with kind Transient or Unknown shows
\* nothing, and an automatic write shows nothing but the fade success, the
\* permission-denied and the not-supported notification.
C10_TransientAutoFailureSilent ==
    ev.type = "autoDone" =>
        /\ ev.out.kind \in {"Transient", "Unknown"} => ev.notes = <<>>
        /\ \A n \in 1..Len(ev.notes) :
              ev.notes[n] \in {Toast("success", "fade"),
                               Toast("permissionDenied", ""),
                               Toast("notSupported", "")}

\* C11: an automatic write that fails with kind PermissionDenied shows the
\* permission-denied notification, and one that fails with kind NotSupported
\* the not-supported notification, whether the write resolved to false or
\* rejected.
C11_ClassifiedAutoFailureNotified ==
    (ev.type = "autoDone" /\ ev.out.how \in {"false", "throw"}) =>
        /\ ev.out.kind = "PermissionDenied" =>
              ev.notes = <<Toast("permissionDenied", "")>>
        /\ ev.out.kind = "NotSupported" =>
              ev.notes = <<Toast("notSupported", "")>>

\* C12: clearSelection() is called at most once by a step, and only by the
\* continuation of a copyPhoneNumbers whose write resolved to true with
\* auto-clear configured: never by a timer callback, a rejected copy or a copy
\* whose write failed.
C12_ClearSelectionOnlyOnManualSuccess ==
    /\ ev.cleared \in {0, 1}
    /\ ev.cleared = 1 =>
          /\ ev.type = "copyDone"
          /\ ev.out.how = "ok"
          /\ ev.autoClear

\* a copy with auto-clear configured succeeded and emptied the selection
C12_Witness ==
    /\ ev.type = "copyDone"
    /\ ev.cleared = 1
    /\ ev.result.success
    /\ selectedIds = {}

\* a copy with auto-clear configured failed and called nothing
C12_FailedConfigured ==
    /\ ev.type = "copyDone"
    /\ ev.out.how # "ok"
    /\ ev.autoClear
    /\ ev.cleared = 0

\* C13: getPreview(maxLength) returns the payload when it is no longer than
\* maxLength; otherwise a string of exactly maxLength characters that ends in
\* "..." and begins with the first maxLength - 3 characters of the payload.
C13_Preview ==
    ev.type = "preview" =>
        LET p == formattedPhoneNumbers(selectedIds)
            n == ev.maxLength
        IN  IF Len(p) <= n THEN ev.text = p
            ELSE /\ Len(ev.text) = n
                 /\ SubSeq(ev.text, n - 2, n) = Ellipsis
                 /\ SubSeq(ev.text, 1, n - 3) = SubSeq(p, 1, n - 3)

\* the same for maxLength of 3 and more
C13_PreviewFromThree ==
    (ev.type = "preview" /\ ev.maxLength >= 3) => C13_Preview

\* a payload was cut to a prefix and the ellipsis
C13_Truncated ==
    /\ ev.type = "preview"
    /\ ev.maxLength > 3
    /\ Len(formattedPhoneNumbers(selectedIds)) > ev.maxLength

\* the conditions under which the effect arms a timer, lines 95-117
ArmConditions ==
    /\ autoUpdateClipboard
    /\ clipboard.isSupported
    /\ ~SkipUpdate(selectedIds, autoUpdateMinSelection, lastUpdatedRef)

\* C14: a render that comes while an automatic write is in flight leaves that
\* write alone and leaves no timer armed; a render that comes when none is in
\* flight leaves a timer armed exactly when the arming conditions hold.
C14_NoArmWhileInFlight ==
    [][ev'.type = "render" =>
          /\ AutoInFlight > 0 => (inflight' = inflight /\ timers' = {})
          /\ AutoInFlight = 0 => (timers' # {} <=> ArmConditions')]_vars

\* what holds of C14 in the code: no render cancels a write, and after every
\* render a timer is armed exactly when the arming conditions hold
C14_RenderArmsOnConditions ==
    [][ev'.type = "render" =>
          /\ inflight' = inflight
          /\ timers' # {} <=> ArmConditions']_vars

\* C15: while a write copyPhoneNumbers started is in flight, no other write
\* of the instance is: a copy starts no write beside a pending one, and a
\* timer callback starts none beside a pending manual write.
C15_SingleWriter ==
    \A w \in BagToSet(inflight) :
        w.origin = "manual" => BagCardinality(inflight) = 1

\* C16: an automatic write that resolves to true has its outcome applied
\* whatever happened while it was in flight (auto-update turned off, another
\* selection, the instance torn down): lastUpdatedRef holds its payload and
\* the fade success notification is shown.
C16_OutcomeApplied ==
    (ev.type = "autoDone" /\ ev.out.how = "ok") =>
        /\ lastUpdatedRef = ev.text
        /\ ev.notes = <<Toast("success", "fade")>>

\* a write resolved to true after auto-update was turned off and the
\* selection changed
C16_Witness ==
    /\ ev.type = "autoDone"
    /\ ev.out.how = "ok"
    /\ ~autoUpdateClipboard
    /\ formattedPhoneNumbers(selectedIds) # ev.text
    /\ lastUpdatedRef = ev.text

\* a write resolved to true after the instance was torn down
C16_AfterUnmount ==
    /\ ev.type = "autoDone"
    /\ ev.out.how = "ok"
    /\ ~mounted
    /\ lastUpdatedRef = ev.text

\* C17: a pending timer holds the payload and the valid count of the current
\* selection, in a mounted instance with auto-update on and the selection at
\* or above the threshold; so the write a timer callback starts carries the
\* payload that is current when it runs.
C17_NoStalePayloadArmed ==
    /\ \A t \in timers :
          /\ t.text = formattedPhoneNumbers(selectedIds)
          /\ t.count = validPhones(selectedIds)
          /\ t.text # <<>>
          /\ autoUpdateClipboard
          /\ mounted
          /\ selectedLength(selectedIds) >= autoUpdateMinSelection
    /\ ev.type = "autoStart" => ev.text = formattedPhoneNumbers(selectedIds)

\* a timer is pending for the current payload after the timer of an earlier
\* payload was canceled, under a threshold above one
C17_Witness ==
    /\ timers # {}
    /\ burst = "armed"
    /\ superseded
    /\ autoUpdateMinSelection > 1

\* C20: the write a timer callback starts carries a payload other than
\* lastUpdatedRef as it stands when the callback runs.
C20_NoRedundantWrite ==
    ev.type = "autoStart" => ev.text # lastUpdatedRef

\* a timer callback started the write of the current payload, which has
\* not resolved
AutoStarted ==
    \E w \in AutoWrites(inflight) : w.text = formattedPhoneNumbers(selectedIds)

\* no timer is armed and no write is in flight
Idle == timers = {} /\ inflight = EmptyBag

\* C18: with the selection and the options left alone, whenever the arming
\* conditions hold a timer callback eventually starts the write of the
\* current payload, and from some point on no timer is armed and no write is
\* in flight.
C18_DebounceLiveness ==
    /\ ArmConditions ~> AutoStarted
    /\ ArmConditions ~> []Idle

\* the part of C18 the code keeps: the write is eventually started
C18_EventuallyStarted == ArmConditions ~> AutoStarted

\* C19: a newer write supersedes an older one. When an automatic write
\* resolves to true and the next step resolves a write that was started
\* before it, that older write leaves lastUpdatedRef as the newer one set it.
C19_NewerWriteWins ==
    [][(/\ ev.type = "autoDone" /\ ev.out.how = "ok"
        /\ ev'.type = "autoDone" /\ ev'.rank < ev.rank) =>
          lastUpdatedRef' = lastUpdatedRef]_vars

====
